---- MODULE Spec2Model ----
(***************************************************************************)
(* Model of formula-parser/src/lib.rs: parse_formula and the Ruby scaffold *)
(* it evaluates.                                                           *)
(*                                                                         *)
(* Text is a sequence of tokens.  A token is a one-character string or an  *)
(* indivisible word of the DSL ("desc", "sha256", ...); a prefix test on   *)
(* the text is a prefix test on the token sequence.                        *)
(***************************************************************************)
EXTENDS Integers, Sequences, FiniteSets, TLC

VARIABLES rubyVM, registry, calls, history

vars == <<rubyVM, registry, calls, history>>

\* ---------------------------------------------------------------- bounds
MaxStemLen == 3
MaxLines == 2

\* ---------------------------------------------------------------- tokens
LF == "\n"
CR == "\r"
SP == " "
QT == "\""
DASH == "-"

\* char::is_whitespace on the tokens used here
Whitespace == {SP, CR, LF, "\t"}

\* the four declarations of the DSL that the scaffold records
Fields == {"desc", "homepage", "url", "sha256"}

\* Option<T>
None == <<>>
Some(v) == <<v>>

\* ------------------------------------------------- identifier derivation
\* char::to_uppercase, on the characters the stems use
Upper(c) ==
    CASE c = "a" -> <<"A">> [] c = "b" -> <<"B">> [] c = "f" -> <<"F">>
      [] c = "g" -> <<"G">> [] c = "i" -> <<"I">> [] c = "l" -> <<"L">>
      [] c = "m" -> <<"M">> [] c = "n" -> <<"N">> [] c = "o" -> <<"O">>
      [] c = "p" -> <<"P">> [] c = "r" -> <<"R">> [] c = "s" -> <<"S">>
      [] c = "u" -> <<"U">>
      [] OTHER -> <<c>>

\* str::split('-'): n separators give n+1 segments, empty ones included
RECURSIVE SplitDash(_, _, _)
SplitDash(s, cur, acc) ==
    IF s = <<>> THEN Append(acc, cur)
    ELSE IF Head(s) = DASH THEN SplitDash(Tail(s), <<>>, Append(acc, cur))
    ELSE SplitDash(Tail(s), Append(cur, Head(s)), acc)

\* faulty variant of Capitalize: the whole segment is uppercased
RECURSIVE UpperAll(_)
UpperAll(part) ==
    IF part = <<>> THEN <<>> ELSE Upper(Head(part)) \o UpperAll(Tail(part))

\* the closure of the map: first character uppercased, the rest appended
Capitalize(part) ==
    IF part = <<>> THEN <<>> ELSE Upper(Head(part)) \o Tail(part)

\* collect::<String>() over the mapped segments
RECURSIVE Collect(_)
Collect(parts) ==
    IF parts = <<>> THEN <<>> ELSE Capitalize(Head(parts)) \o Collect(Tail(parts))

ClassName(stem) == Collect(SplitDash(stem, <<>>, <<>>))

\* ------------------------------------------------------------ line filter
\* str::split_inclusive('\n'): pieces keep their terminator, no empty last piece
RECURSIVE SplitInclusive(_, _, _)
SplitInclusive(s, cur, acc) ==
    IF s = <<>> THEN (IF cur = <<>> THEN acc ELSE Append(acc, cur))
    ELSE IF Head(s) = LF THEN SplitInclusive(Tail(s), <<>>, Append(acc, Append(cur, LF)))
    ELSE SplitInclusive(Tail(s), Append(cur, Head(s)), acc)

\* the map of str::lines: strip one "\n", and then one "\r" before it
StripTerminator(piece) ==
    IF piece # <<>> /\ piece[Len(piece)] = LF
    THEN LET l == SubSeq(piece, 1, Len(piece) - 1)
         IN  IF l # <<>> /\ l[Len(l)] = CR THEN SubSeq(l, 1, Len(l) - 1) ELSE l
    ELSE piece

\* str::lines
Lines(s) ==
    LET pieces == SplitInclusive(s, <<>>, <<>>)
    IN  [i \in 1..Len(pieces) |-> StripTerminator(pieces[i])]

RECURSIVE TrimStart(_)
TrimStart(s) ==
    IF s # <<>> /\ Head(s) \in Whitespace THEN TrimStart(Tail(s)) ELSE s

RECURSIVE TrimEnd(_)
TrimEnd(s) ==
    IF s # <<>> /\ s[Len(s)] \in Whitespace THEN TrimEnd(SubSeq(s, 1, Len(s) - 1)) ELSE s

\* str::trim
Trim(s) == TrimEnd(TrimStart(s))

\* str::starts_with
StartsWith(s, p) == Len(s) >= Len(p) /\ SubSeq(s, 1, Len(p)) = p

\* faulty variant of IsMetadataLine: every sha256 line is kept, the bottle ones too
IsMetadataLineAnySha(line) ==
    LET trimmed == Trim(line)
    IN  IF \/ StartsWith(trimmed, <<"desc", SP>>)
           \/ StartsWith(trimmed, <<"homepage", SP>>)
           \/ StartsWith(trimmed, <<"url", SP>>)
        THEN TRUE
        ELSE StartsWith(trimmed, <<"sha256", SP>>)

\* the if / else-if of the loop body: is the line pushed
IsMetadataLine(line) ==
    LET trimmed == Trim(line)
    IN  IF \/ StartsWith(trimmed, <<"desc", SP>>)
           \/ StartsWith(trimmed, <<"homepage", SP>>)
           \/ StartsWith(trimmed, <<"url", SP>>)
        THEN TRUE
        ELSE StartsWith(trimmed, <<"sha256", SP, QT>>)

\* the loop over file_content.lines()
RECURSIVE MetadataLoop(_, _)
MetadataLoop(ls, metadata_lines) ==
    IF ls = <<>> THEN metadata_lines
    ELSE MetadataLoop(Tail(ls),
                      IF IsMetadataLine(Head(ls))
                      THEN Append(metadata_lines, Head(ls))
                      ELSE metadata_lines)

MetadataLines(file_content) == MetadataLoop(Lines(file_content), <<>>)

\* [&str]::join("\n")
RECURSIVE Join(_)
Join(ls) ==
    IF ls = <<>> THEN <<>>
    ELSE IF Len(ls) = 1 THEN Head(ls)
    ELSE Head(ls) \o <<LF>> \o Join(Tail(ls))

\* MetadataLineFilter of the design: source text to filtered text
Filter(file_content) == Join(MetadataLines(file_content))

\* ------------------------------------------------------ the Ruby scaffold
\* Ruby values: a String, nil, an Integer
StrVal(v) == [t |-> "str", v |-> v]
Nil == [t |-> "nil", v |-> <<>>]
IntVal(v) == [t |-> "int", v |-> v]

\* `if value`: nil is falsy (false does not occur here)
Truthy(value) == value.t # "nil"

EmptyHash == [x \in {} |-> x]

\* Hash#[]=
Put(h, k, v) == [x \in DOMAIN h \cup {k} |-> IF x = k THEN v ELSE h[x]]

\* faulty variant of FormulaClassBody: the registry survives the reopening
\* of the class (@@formulas ||= {})
FormulaClassBodyKeep(reg) == reg

\* the body of `class Formula`, run by every eval of inspector_code:
\* @@formulas = {}
FormulaClassBody(reg) == EmptyHash

\* faulty variant of DslSetter: a copy-paste slip makes every setter store
\* under :desc
DslSetterDesc(reg, name, field, value) ==
    IF Truthy(value)
    THEN LET r1 == IF name \in DOMAIN reg THEN reg ELSE Put(reg, name, EmptyHash)
         IN  [r1 EXCEPT ![name] = Put(@, "desc", value)]
    ELSE reg

\* self.desc / self.homepage / self.url / self.sha256 called with an argument
\* inside the class body: the registry afterwards
DslSetter(reg, name, field, value) ==
    IF Truthy(value)
    THEN LET r1 == IF name \in DOMAIN reg THEN reg ELSE Put(reg, name, EmptyHash)
         IN  [r1 EXCEPT ![name] = Put(@, field, value)]
    ELSE reg

\* the same methods called with no argument: @@formulas[self.name]&.dig(field)
DslGetter(reg, name, field) ==
    IF name \in DOMAIN reg /\ field \in DOMAIN reg[name] THEN reg[name][field] ELSE Nil

\* --------------------------------- the interpreter, on the fragment used
\* The retained lines the scripts below contain are  <field> <argument>
\* with a double-quoted string (possibly unterminated), nil, an integer or an
\* undefined name as argument; a string runs to the next quote, across lines.
LowerLetters == {"a", "b", "f", "g", "i", "l", "m", "n", "o", "p", "r", "s", "u"}
UpperLetters == {Upper(c)[1] : c \in LowerLetters}
Digits == {"2"}
IdentChars == LowerLetters \cup UpperLetters \cup Digits \cup {"_"}
InlineWs == {SP, CR, "\t"}
IntLits == {"42"}
Idents == {"foo"}

\* `class <name> < Formula` parses only when <name> is a constant
IsConstant(name) ==
    /\ name # <<>>
    /\ name[1] \in UpperLetters
    /\ \A i \in 1..Len(name) : name[i] \in IdentChars

\* the class the scaffold itself defines: `class Formula < Formula` raises
\* TypeError (superclass mismatch)
ScaffoldClass == <<"F", "o", "r", "m", "u", "l", "a">>

RECURSIVE SkipWs(_, _)
SkipWs(toks, i) ==
    IF i <= Len(toks) /\ toks[i] \in InlineWs THEN SkipWs(toks, i + 1) ELSE i

RECURSIVE FindQuote(_, _)
FindQuote(toks, i) ==
    IF i > Len(toks) THEN 0
    ELSE IF toks[i] = QT THEN i
    ELSE FindQuote(toks, i + 1)

SyntaxError == [ok |-> FALSE, stmts |-> <<>>]

\* the statements of the class body, or a SyntaxError for the whole script
RECURSIVE ParseStmts(_, _, _)
ParseStmts(toks, i, acc) ==
    LET j == SkipWs(toks, i)
        After(m, stmt) ==
            LET e == SkipWs(toks, m)
            IN  IF e > Len(toks) \/ toks[e] = LF
                THEN ParseStmts(toks, e, Append(acc, stmt))
                ELSE SyntaxError
    IN  IF j > Len(toks) THEN [ok |-> TRUE, stmts |-> acc]
        ELSE IF toks[j] = LF THEN ParseStmts(toks, j + 1, acc)
        ELSE IF toks[j] \notin Fields THEN SyntaxError
        ELSE IF j + 1 > Len(toks) \/ toks[j + 1] = LF
             THEN ParseStmts(toks, j + 1, acc)
        ELSE IF toks[j + 1] \notin InlineWs THEN SyntaxError
        ELSE LET k == SkipWs(toks, j + 1)
             IN  IF k > Len(toks) \/ toks[k] = LF THEN ParseStmts(toks, k, acc)
                 ELSE IF toks[k] = QT
                      THEN LET q == FindQuote(toks, k + 1)
                           IN  IF q = 0 THEN SyntaxError
                               ELSE After(q + 1, [field |-> toks[j],
                                                  arg |-> StrVal(SubSeq(toks, k + 1, q - 1))])
                 ELSE IF toks[k] = "nil"
                      THEN After(k + 1, [field |-> toks[j], arg |-> Nil])
                 ELSE IF toks[k] \in IntLits
                      THEN After(k + 1, [field |-> toks[j], arg |-> IntVal(<<toks[k]>>)])
                 ELSE IF toks[k] \in Idents
                      THEN After(k + 1, [field |-> toks[j],
                                         arg |-> [t |-> "ident", v |-> <<toks[k]>>]])
                 ELSE SyntaxError

RubyParse(body) == ParseStmts(body, 1, <<>>)

\* the class body, statement by statement; an undefined name raises NameError
\* and leaves what the earlier statements stored
RECURSIVE Exec(_, _, _)
Exec(reg, name, stmts) ==
    IF stmts = <<>> THEN [ok |-> TRUE, reg |-> reg]
    ELSE IF Head(stmts).arg.t = "ident" THEN [ok |-> FALSE, reg |-> reg]
    ELSE Exec(DslSetter(reg, name, Head(stmts).field, Head(stmts).arg), name, Tail(stmts))

\* ruby.eval(inspector_code): a script that does not parse runs nothing
RubyEval(reg, class_name, extracted_metadata) ==
    LET parsed == RubyParse(extracted_metadata)
    IN  IF ~IsConstant(class_name) \/ ~parsed.ok
        THEN [ok |-> FALSE, ran |-> FALSE, reg |-> reg]
        ELSE LET r0 == FormulaClassBody(reg)
                 r1 == IF class_name = ScaffoldClass
                       THEN [ok |-> FALSE, reg |-> r0]
                       ELSE Exec(r0, class_name, parsed.stmts)
             IN  [ok |-> r1.ok, ran |-> TRUE, reg |-> r1.reg]

\* funcall(field, ()).ok() as Option<String>: nil converts to None, and a
\* value that is no String fails to convert, which .ok() turns into None
FuncallOk(reg, class_name, field) ==
    LET value == DslGetter(reg, class_name, field)
    IN  IF value.t = "str" THEN Some(value.v) ELSE None

\* the Formula struct
MakeFormula(file_stem, reg, class_name) ==
    [name |-> file_stem,
     description |-> FuncallOk(reg, class_name, "desc"),
     homepage |-> FuncallOk(reg, class_name, "homepage"),
     url |-> FuncallOk(reg, class_name, "url"),
     sha256 |-> FuncallOk(reg, class_name, "sha256"),
     dependencies |-> <<>>]

\* ------------------------------------------------------------ the inputs
\* lines of formula scripts
DescA == <<"desc", SP, QT, "a", QT>>
DescB == <<SP, SP, "desc", SP, QT, "b", QT>>
DescNil == <<"desc", SP, "nil">>
Desc42 == <<"desc", SP, "42">>
DescOpen == <<"desc", SP, QT, "a">>
DescCr == <<"desc", SP, QT, "a", QT, CR>>
DescBare == <<"desc">>
HomepageH == <<"homepage", SP, QT, "h", QT>>
UrlC == <<"url", SP, QT, "c", QT>>
UrlFoo == <<"url", SP, "foo">>
ShaD == <<SP, SP, "sha256", SP, QT, "d", QT>>
ShaBottle == <<SP, SP, "sha256", SP, "cellar:", SP, ":any,", SP, "k:", SP, QT, "d", QT>>
System == <<SP, SP, "system", SP, QT, "x", QT>>
DefInstall == <<"def", SP, "install">>
StrayQuote == <<"system", SP, QT, "x">>
Blank == <<>>

RECURSIVE Flatten(_)
Flatten(ss) == IF ss = <<>> THEN <<>> ELSE Head(ss) \o Flatten(Tail(ss))

\* a script whose lines all end in "\n"
Script(ls) == Flatten([i \in 1..Len(ls) |-> ls[i] \o <<LF>>])

SeqsUpTo(S, n) == UNION {[1..k -> S] : k \in 0..n}

\* the scripts of the sequential runs: short ones over every shape of line,
\* and full ones with an install part that is dropped
ScriptLines == {DescA, DescB, DescNil, DescOpen, UrlC, UrlFoo}
ShortScripts == {Script(ls) : ls \in SeqsUpTo(ScriptLines, MaxLines)}
ExtraScripts ==
    {Script(<<Desc42>>), Script(<<DescA, Desc42>>), Script(<<Desc42, DescB>>),
     Script(<<System>>), Script(<<ShaBottle, DefInstall>>)}
FullScripts ==
    {Script(<<d, HomepageH, j, UrlC, ShaD, ShaBottle>>) :
        d \in {DescA, DescB}, j \in {System, DefInstall, StrayQuote, Blank}}
Scripts == ShortScripts \cup ExtraScripts \cup FullScripts

\* file stems; "a" and "a-" derive the same identifier
Formula7 == <<"f", "o", "r", "m", "u", "l", "a">>
SameIdStems == {<<"a">>, <<"a", DASH>>}
OtherStems == {<<"b">>, <<>>, <<DASH>>, <<"2", "a">>, Formula7}

Inputs ==
    {[stem |-> s, readable |-> TRUE, file_content |-> c] : s \in SameIdStems, c \in Scripts}
    \cup {[stem |-> s, readable |-> TRUE, file_content |-> c] : s \in OtherStems, c \in FullScripts}
    \cup {[stem |-> s, readable |-> FALSE, file_content |-> <<>>] : s \in SameIdStems \cup OtherStems}

\* the inputs of the concurrent runs
ConcInputs ==
    {[stem |-> s, readable |-> TRUE, file_content |-> c] :
        s \in SameIdStems,
        c \in {Script(<<DescA>>), Script(<<DescB, UrlC>>), Script(<<System>>)}}

\* the stems identifier derivation is run on
StemChars == {"a", "b", "2", DASH}
DeriveStems ==
    SeqsUpTo(StemChars, MaxStemLen)
    \cup {<<"a", "2", "p", "s">>, <<"l", "i", "b", DASH, "p", "n", "g">>, Formula7}

\* the source texts the line filter is run on: lines with any terminator,
\* a missing one included
FilterLineSet == {DescA, DescB, DescCr, DescBare, HomepageH, UrlC, ShaD, ShaBottle, System}
Terminators == {<<LF>>, <<CR, LF>>, <<>>}
FilterSources ==
    {Flatten([i \in 1..Len(ls) |-> ls[i][1] \o ls[i][2]]) :
        ls \in SeqsUpTo(FilterLineSet \X Terminators, MaxLines)}

\* ------------------------------------------------------------- the state
Callers == {1, 2}
MainThread == 1

NoFormula ==
    [name |-> <<>>, description |-> None, homepage |-> None, url |-> None,
     sha256 |-> None, dependencies |-> <<>>]

IdleCall ==
    [pc |-> "idle", stem |-> <<>>, readable |-> FALSE, file_content |-> <<>>,
     class_name |-> <<>>, metadata_lines |-> <<>>, extracted_metadata |-> <<>>,
     outcome |-> "none", formula |-> NoFormula]

Begin(p, in, at) ==
    calls' = [calls EXCEPT ![p] = [IdleCall EXCEPT !.pc = at, !.stem = in.stem,
                                                   !.readable = in.readable,
                                                   !.file_content = in.file_content]]

Finish(p, outcome) ==
    calls' = [calls EXCEPT ![p].pc = "done", ![p].outcome = outcome]

Init ==
    /\ rubyVM = FALSE
    /\ registry = EmptyHash
    /\ calls = [p \in Callers |-> IdleCall]
    /\ history = {}

\* tests::it_parses_a2ps: magnus::embed::init(), once per process
EmbedInit ==
    /\ ~rubyVM
    /\ rubyVM' = TRUE
    /\ UNCHANGED <<registry, calls, history>>

\* one caller, one call at a time
Call ==
    /\ rubyVM
    /\ \A q \in Callers : calls[q].pc = "idle"
    /\ \E in \in Inputs : Begin(MainThread, in, "derive")
    /\ UNCHANGED <<rubyVM, registry, history>>

\* callers that do not wait for one another
Spawn(p) ==
    /\ rubyVM
    /\ calls[p].pc = "idle"
    /\ \E in \in ConcInputs : Begin(p, in, "derive")
    /\ UNCHANGED <<rubyVM, registry, history>>

\* file_stem, class_name, and the panic on an empty class name
Derive(p) ==
    /\ calls[p].pc = "derive"
    /\ LET class_name == ClassName(calls[p].stem)
       IN  IF class_name = <<>>
           THEN Finish(p, "Panic")
           ELSE calls' = [calls EXCEPT ![p].pc = "vm", ![p].class_name = class_name]
    /\ UNCHANGED <<rubyVM, registry, history>>

\* Ruby::get()
GetRuby(p) ==
    /\ calls[p].pc = "vm"
    /\ IF rubyVM
       THEN calls' = [calls EXCEPT ![p].pc = "read"]
       ELSE Finish(p, "RuntimeError")
    /\ UNCHANGED <<rubyVM, registry, history>>

\* fs::read_to_string(path).expect(..)
ReadFile(p) ==
    /\ calls[p].pc = "read"
    /\ IF calls[p].readable
       THEN calls' = [calls EXCEPT ![p].pc = "filter"]
       ELSE Finish(p, "Panic")
    /\ UNCHANGED <<rubyVM, registry, history>>

\* metadata_lines and extracted_metadata
FilterLines(p) ==
    /\ calls[p].pc = "filter"
    /\ LET metadata_lines == MetadataLines(calls[p].file_content)
       IN  calls' = [calls EXCEPT ![p].pc = "eval",
                                  ![p].metadata_lines = metadata_lines,
                                  ![p].extracted_metadata = Join(metadata_lines)]
    /\ UNCHANGED <<rubyVM, registry, history>>

\* ruby.eval::<magnus::Value>(&inspector_code)?
\* history (not a variable of the program) remembers the identifiers under
\* which an evaluation that ran left values in the registry, and how it ended
Evaluate(p) ==
    /\ calls[p].pc = "eval"
    /\ LET r == RubyEval(registry, calls[p].class_name, calls[p].extracted_metadata)
       IN  /\ registry' = r.reg
           /\ IF r.ok
              THEN calls' = [calls EXCEPT ![p].pc = "retrieve"]
              ELSE Finish(p, "EvaluationError")
           /\ history' = IF r.ran /\ calls[p].class_name \in DOMAIN r.reg
                          THEN history \cup {<<calls[p].class_name, r.ok>>}
                          ELSE history
    /\ UNCHANGED rubyVM

\* Object.const_get, the four funcalls, Ok(Formula { .. })
Retrieve(p) ==
    /\ calls[p].pc = "retrieve"
    /\ calls' = [calls EXCEPT ![p].pc = "done", ![p].outcome = "Ok",
                              ![p].formula = MakeFormula(calls[p].stem, registry,
                                                         calls[p].class_name)]
    /\ UNCHANGED <<rubyVM, registry, history>>

\* the caller takes the result; a panic does not return
Return(p) ==
    /\ calls[p].pc = "done"
    /\ calls[p].outcome # "Panic"
    /\ calls' = [calls EXCEPT ![p] = IdleCall]
    /\ UNCHANGED <<rubyVM, registry, history>>

Step(p) ==
    \/ Derive(p)
    \/ GetRuby(p)
    \/ ReadFile(p)
    \/ FilterLines(p)
    \/ Evaluate(p)
    \/ Retrieve(p)
    \/ Return(p)

\* sequential calls in one process
Next == EmbedInit \/ Call \/ \E p \in Callers : Step(p)

Spec == Init /\ [][Next]_vars

\* interleaved calls on the one interpreter
NextConc == EmbedInit \/ (\E p \in Callers : Spawn(p)) \/ (\E p \in Callers : Step(p))

SpecConc == Init /\ [][NextConc]_vars

\* identifier derivation alone, over every stem
InitDerive ==
    /\ rubyVM = TRUE
    /\ registry = EmptyHash
    /\ history = {}
    /\ \E s \in DeriveStems :
          calls = [p \in Callers |->
                     IF p = MainThread
                     THEN [IdleCall EXCEPT !.pc = "derive", !.stem = s, !.readable = TRUE]
                     ELSE IdleCall]

NextDerive == \E p \in Callers : Derive(p)

SpecDerive == InitDerive /\ [][NextDerive]_vars

\* the line filter alone, over every source text
InitFilter ==
    /\ rubyVM = TRUE
    /\ registry = EmptyHash
    /\ history = {}
    /\ \E c \in FilterSources :
          calls = [p \in Callers |->
                     IF p = MainThread
                     THEN [IdleCall EXCEPT !.pc = "filter", !.stem = <<"a">>,
                                           !.class_name = <<"A">>, !.readable = TRUE,
                                           !.file_content = c]
                     ELSE IdleCall]

NextFilter == \E p \in Callers : FilterLines(p)

SpecFilter == InitFilter /\ [][NextFilter]_vars

\* ================================================================ claims
\* vocabulary of the claims, stated without the operators of the code path
Finished(p) == calls[p].pc = "done"
Returned(p) == Finished(p) /\ calls[p].outcome = "Ok"
PastDerive(p) == calls[p].pc \notin {"idle", "derive"}
Filtered(p) == calls[p].pc = "eval"

\* the prefix that makes a line a declaration of the field
DeclPrefix(f) == IF f = "sha256" THEN <<f, SP, QT>> ELSE <<f, SP>>
Declares(line, f) == StartsWith(Trim(line), DeclPrefix(f))
IsDeclaration(line) == \E f \in Fields : Declares(line, f)

\* the declaration lines of a source text for one field, in file order
DeclLines(src, f) == SelectSeq(Lines(src), LAMBDA l : Declares(l, f))

\* the strings between two quotes of a source text
QuotedIn(src) ==
    {SubSeq(src, i + 1, j - 1) : i \in {m \in 1..Len(src) : src[m] = QT},
                                 j \in {m \in 1..Len(src) : src[m] = QT}}

\* the optional field of a record that belongs to a declaration name
FieldValue(formula, f) ==
    CASE f = "desc" -> formula.description
      [] f = "homepage" -> formula.homepage
      [] f = "url" -> formula.url
      [] f = "sha256" -> formula.sha256

\* a declaration line whose argument is one string literal, and that string
HasLiteralArg(line) ==
    LET t == Trim(line)
    IN  /\ Len(t) >= 4
        /\ t[1] \in Fields /\ t[2] = SP /\ t[3] = QT /\ t[Len(t)] = QT
        /\ \A i \in 4..(Len(t) - 1) : t[i] # QT
LiteralArg(line) == LET t == Trim(line) IN SubSeq(t, 4, Len(t) - 1)

\* the argument of a declaration line as an optional string: a string
\* literal is that string, nil (or anything that is no string) is absent
ArgOption(line) == IF HasLiteralArg(line) THEN Some(LiteralArg(line)) ELSE None

\* what a call returns when nothing else ever ran in the process
Alone(stem, src) ==
    LET cn == ClassName(stem)
    IN  MakeFormula(stem, RubyEval(EmptyHash, cn, Filter(src)).reg, cn)

\* the stem's '-'-separated segments are all empty
OnlySeparators(stem) == \A i \in 1..Len(stem) : stem[i] = DASH

\* the stem with its separators removed and the first character of every
\* segment uppercased, position by position
RECURSIVE PascalFrom(_, _)
PascalFrom(stem, i) ==
    IF i > Len(stem) THEN <<>>
    ELSE (IF stem[i] = DASH THEN <<>>
          ELSE IF i = 1 \/ stem[i - 1] = DASH THEN Upper(stem[i])
          ELSE <<stem[i]>>) \o PascalFrom(stem, i + 1)

\* C1: in any sequence of calls, a returned record has an optional field
\* only if the call's own file has a declaration line for that field, the
\* value is a string of that file, and a file with no declaration line
\* yields a record with the four optional fields absent.
C1_NoCrossContamination ==
    \A p \in Callers : Returned(p) =>
        /\ \A f \in Fields :
              FieldValue(calls[p].formula, f) # None =>
                 /\ DeclLines(calls[p].file_content, f) # <<>>
                 /\ FieldValue(calls[p].formula, f)[1] \in QuotedIn(calls[p].file_content)
        /\ (\A f \in Fields : DeclLines(calls[p].file_content, f) = <<>>) =>
              \A f \in Fields : FieldValue(calls[p].formula, f) = None

\* a call on a file with no declaration line returns an empty record after
\* an earlier call stored values under the same identifier
C1_Witness ==
    \E p \in Callers :
        /\ Returned(p)
        /\ \A f \in Fields : DeclLines(calls[p].file_content, f) = <<>>
        /\ <<calls[p].class_name, TRUE>> \in history
        /\ \A f \in Fields : FieldValue(calls[p].formula, f) = None

\* C2: calls on the same identifier whose evaluate and retrieve steps
\* interleave each return only the values of their own file.
C2_IsolatedUnderInterleaving ==
    \A p \in Callers : Returned(p) =>
        calls[p].formula = Alone(calls[p].stem, calls[p].file_content)

\* C3: a call on an unreadable file whose stem derives a non-empty
\* identifier ends with the error value IoError, never with a panic.
C3_UnreadableIsIoError ==
    \A p \in Callers :
        (Finished(p) /\ ~calls[p].readable /\ ~OnlySeparators(calls[p].stem)) =>
            calls[p].outcome = "IoError"

\* C4: derivation ends with the error value InvalidIdentifier exactly when
\* every segment of the stem is empty, and otherwise gives a non-empty
\* identifier; it never panics.
C4_InvalidIdentifier ==
    \A p \in Callers : PastDerive(p) =>
        IF OnlySeparators(calls[p].stem)
        THEN Finished(p) /\ calls[p].outcome = "InvalidIdentifier"
        ELSE calls[p].class_name # <<>> /\ calls[p].outcome # "InvalidIdentifier"

\* C5: the class body is exactly the lines of the script whose trimmed
\* content starts with `desc `, `homepage `, `url ` or `sha256 "`, unchanged
\* and in file order, joined by newlines; no other line is in it.
C5_BodyIsDeclarationLines ==
    \A p \in Callers : Filtered(p) =>
        /\ calls[p].metadata_lines = SelectSeq(Lines(calls[p].file_content), IsDeclaration)
        /\ \A i \in 1..Len(calls[p].metadata_lines) :
              ~StartsWith(Trim(calls[p].metadata_lines[i]), <<"sha256", SP, "cellar:">>)
        /\ Len(calls[p].extracted_metadata) =
              Len(Flatten(calls[p].metadata_lines))
              + (IF calls[p].metadata_lines = <<>> THEN 0
                 ELSE Len(calls[p].metadata_lines) - 1)
        /\ \A i \in 1..Len(calls[p].metadata_lines) :
              \E k \in 0..Len(calls[p].extracted_metadata) :
                 SubSeq(calls[p].extracted_metadata, k + 1,
                        k + Len(calls[p].metadata_lines[i])) = calls[p].metadata_lines[i]

\* a script with a bottle checksum line and a primary checksum line: the
\* body is the primary line alone
C5_Witness ==
    \E p \in Callers :
        /\ Filtered(p)
        /\ calls[p].file_content = ShaBottle \o <<LF>> \o ShaD \o <<LF>>
        /\ calls[p].extracted_metadata = ShaD

\* C6: the derived identifier is the stem's segments joined with no
\* separator, the first character of each uppercased and the rest unchanged;
\* it is empty exactly when every segment is empty.
C6_Derivation ==
    \A p \in Callers : PastDerive(p) =>
        /\ calls[p].class_name = PascalFrom(calls[p].stem, 1)
        /\ (calls[p].class_name = <<>>) <=> OnlySeparators(calls[p].stem)
        /\ calls[p].stem = <<"a", "2", "p", "s">> =>
              calls[p].class_name = <<"A", "2", "p", "s">>
        /\ calls[p].stem = <<"l", "i", "b", DASH, "p", "n", "g">> =>
              calls[p].class_name = <<"L", "i", "b", "P", "n", "g">>

\* lib-png has been derived to LibPng
C6_Witness ==
    \E p \in Callers :
        /\ calls[p].pc = "vm"
        /\ calls[p].stem = <<"l", "i", "b", DASH, "p", "n", "g">>
        /\ calls[p].class_name = <<"L", "i", "b", "P", "n", "g">>

\* every declaration line of the text has one string literal as argument,
\* and each of the four fields is declared once
WellDeclared(src) ==
    /\ \A i \in 1..Len(Lines(src)) :
          IsDeclaration(Lines(src)[i]) => HasLiteralArg(Lines(src)[i])
    /\ \A f \in Fields : Len(DeclLines(src, f)) = 1

\* C7: a readable script declaring the four fields with string literals
\* parses to a record named by the raw stem, with the four declared strings
\* and no dependencies, whatever its other lines are (stems from which no
\* identifier derives are left to C4).
C7_RoundTrip ==
    \A p \in Callers :
        (/\ Finished(p)
         /\ calls[p].readable
         /\ ~OnlySeparators(calls[p].stem)
         /\ WellDeclared(calls[p].file_content)) =>
            /\ calls[p].outcome = "Ok"
            /\ calls[p].formula.name = calls[p].stem
            /\ calls[p].formula.name # <<>>
            /\ \A f \in Fields :
                  FieldValue(calls[p].formula, f) =
                     ArgOption(DeclLines(calls[p].file_content, f)[1])
            /\ calls[p].formula.dependencies = <<>>

\* C8: filtering the filtered text again changes nothing.
C8_FilterIdempotent ==
    \A p \in Callers : Filtered(p) =>
        Filter(calls[p].extracted_metadata) = calls[p].extracted_metadata

\* C9: a field declared on several lines has the argument of the last of
\* them as its value, and a field declared once or never is not changed by
\* the declarations of another field.
C9_LastDeclarationWins ==
    \A p \in Callers : Returned(p) =>
        \A f \in Fields :
            LET ls == DeclLines(calls[p].file_content, f)
            IN  FieldValue(calls[p].formula, f) =
                   (IF ls = <<>> THEN None ELSE ArgOption(ls[Len(ls)]))

\* C10: after a call failed with an evaluation error that had stored values
\* under an identifier, a later call on that identifier returns what it
\* returns when nothing else ever ran.
C10_FailureLeavesNothing ==
    \A p \in Callers :
        (Returned(p) /\ <<calls[p].class_name, FALSE>> \in history) =>
            calls[p].formula = Alone(calls[p].stem, calls[p].file_content)

\* the only evaluations that stored values under the identifier failed, and
\* a call on a file that declares nothing returns none of those values
C10_Witness ==
    \E p \in Callers :
        /\ Returned(p)
        /\ <<calls[p].class_name, FALSE>> \in history
        /\ <<calls[p].class_name, TRUE>> \notin history
        /\ calls[p].file_content = Script(<<System>>)
        /\ calls[p].formula = [NoFormula EXCEPT !.name = calls[p].stem]

====
